---- MODULE Spec2Model ----
(***************************************************************************)
(* Model of src/timeline.py: the Timeline aggregate (four name-keyed       *)
(* dicts of Age / Period / Event / Country records), its derived range     *)
(* (start / end properties) and the draw commands issued by plot().        *)
(*                                                                         *)
(* Conventions                                                             *)
(*  - A Python dict is a sequence of [name, value] entries with pairwise   *)
(*    distinct names, in insertion order; d[k] = v replaces in place when  *)
(*    k is present and appends otherwise.                                  *)
(*  - Time coordinates and country y-positions are integers.  Values that  *)
(*    the code divides by two (np.mean of two coordinates, the fence       *)
(*    midpoints) are kept DOUBLED, in fields whose name ends in "2", so    *)
(*    that true division stays exact: y2 = 30 stands for y = 15.0.         *)
(*  - Styling values that are only passed through to the drawing backend   *)
(*    (colours, alphas, font sizes, urls) are opaque string literals.      *)
(*  - A call that may raise yields ok = FALSE and the exception's name.    *)
(***************************************************************************)
EXTENDS Integers, Sequences, FiniteSets, TLC

VARIABLES ages, periods, countries, events, last, prev

vars == <<ages, periods, countries, events, last, prev>>

colls == <<ages, periods, countries, events>>

(* ---------------------------- bounds ----------------------------------- *)
(* MaxRecords caps the number of records a Timeline holds (an add under a  *)
(* name already present is always possible).  The argument sets below are  *)
(* the calls the model makes: a kw record holds the keyword arguments that *)
(* the caller passes, every other optional parameter takes its default.    *)

MaxRecords == 4

AgeNames == {"Iron"}
PeriodNames == {"Han"}
EventNames == {"Fall"}
CountryNames == {"A", "B", "C"}

NoKw == [k \in {} |-> ""]

AgeArgs ==
    { [start |-> -50, end |-> 200, color |-> "r", kw |-> NoKw],
      [start |-> 100, end |-> 200, color |-> "r", kw |-> NoKw],
      [start |-> 100, end |-> 200, color |-> "b",
       kw |-> [y |-> "0.8", url |-> "http://age"]] }

PeriodArgs ==
    { [start |-> 300, end |-> 100, y |-> "0.5", color |-> "g", kw |-> NoKw],
      [start |-> 120, end |-> 180, y |-> "0.6", color |-> "g",
       kw |-> [alpha |-> "0.6", bold |-> "True", url |-> "http://period"]] }

EventArgs ==
    { [year |-> 170, y |-> "0.3", kw |-> NoKw],
      [year |-> 250, y |-> "0.3", kw |-> NoKw],
      [year |-> 250, y |-> "0.4",
       kw |-> [color |-> "b", fontsize |-> "9", url |-> "http://event"]] }

CountryArgs ==
    { [y |-> 10, kw |-> NoKw],
      [y |-> 20, kw |-> NoKw],
      [y |-> 40, kw |-> NoKw],
      [y |-> 25, kw |-> [url |-> "http://country"]] }

(* ---------------------------- dicts ------------------------------------ *)

EmptyDict == <<>>

Keys(d) == {d[i].name : i \in 1..Len(d)}

Values(d) == [i \in 1..Len(d) |-> d[i].value]

DictSet_setdefault(d, k, v) ==
    IF k \in Keys(d) THEN d ELSE Append(d, [name |-> k, value |-> v])

DictSet(d, k, v) ==
    IF k \in Keys(d)
    THEN [i \in 1..Len(d) |-> IF d[i].name = k THEN [name |-> k, value |-> v] ELSE d[i]]
    ELSE Append(d, [name |-> k, value |-> v])

Arg(kw, k, default) == IF k \in DOMAIN kw THEN kw[k] ELSE default

(* ---------------------------- records ---------------------------------- *)

Age(start_, end_, color, y, top_alpha, bottom_alpha, url) ==
    [start |-> start_, end |-> end_, color |-> color, y |-> y,
     top_alpha |-> top_alpha, bottom_alpha |-> bottom_alpha, url |-> url]

Period(start_, end_, y, color, alpha, fontsize, bold, h, url) ==
    [start |-> start_, end |-> end_, y |-> y, color |-> color, alpha |-> alpha,
     fontsize |-> fontsize, bold |-> bold, h |-> h, url |-> url]

Event(year, y, color, fontsize, bold, url) ==
    [year |-> year, y |-> y, color |-> color, fontsize |-> fontsize,
     bold |-> bold, url |-> url]

Country(y, url) == [y |-> y, url |-> url]

(* ---------------------------- numpy helpers ---------------------------- *)

RECURSIVE np_min(_)
np_min(a) ==
    IF Len(a) = 1 THEN a[1]
    ELSE LET m == np_min(Tail(a)) IN IF a[1] < m THEN a[1] ELSE m

RECURSIVE np_max(_)
np_max(a) ==
    IF Len(a) = 1 THEN a[1]
    ELSE LET m == np_max(Tail(a)) IN IF a[1] > m THEN a[1] ELSE m

RECURSIVE np_arange(_, _, _)
np_arange(first, stop, step) ==
    IF first >= stop THEN <<>>
    ELSE <<first>> \o np_arange(first + step, stop, step)

RECURSIVE flatten(_)
flatten(rows) ==
    IF rows = <<>> THEN <<>> ELSE Head(rows) \o flatten(Tail(rows))

(* ---------------------------- derived range ---------------------------- *)

ages_years == flatten([i \in 1..Len(ages) |-> <<ages[i].value.start, ages[i].value.end>>])

periods_years == flatten([i \in 1..Len(periods) |-> <<periods[i].value.start, periods[i].value.end>>])

events_years == [i \in 1..Len(events) |-> events[i].value.year]

all_years_no_events == ages_years \o periods_years

all_years == ages_years \o periods_years \o events_years

start ==
    IF Len(all_years) = 0 THEN [ok |-> FALSE, exc |-> "ValueError"]
    ELSE [ok |-> TRUE, value |-> np_min(all_years)]

end ==
    IF Len(all_years) = 0 THEN [ok |-> FALSE, exc |-> "ValueError"]
    ELSE [ok |-> TRUE, value |-> np_max(all_years)]

(* ---------------------------- operations ------------------------------- *)

NumRecords == Len(ages) + Len(periods) + Len(countries) + Len(events)

HasRoom(d, name) == name \in Keys(d) \/ NumRecords < MaxRecords

Init ==
    /\ ages = EmptyDict
    /\ periods = EmptyDict
    /\ countries = EmptyDict
    /\ events = EmptyDict
    /\ last = [call |-> "__init__"]
    /\ prev = [call |-> "none"]

add_age(name, start_, end_, color, kw) ==
    /\ HasRoom(ages, name)
    /\ ages' = DictSet(ages, name,
                       Age(start_, end_, color, Arg(kw, "y", "0.9"),
                           Arg(kw, "top_alpha", "0.5"),
                           Arg(kw, "bottom_alpha", "0.1"),
                           Arg(kw, "url", "None")))
    /\ last' = [call |-> "add_age", name |-> name, start |-> start_,
                end |-> end_, color |-> color, kw |-> kw]
    /\ prev' = [call |-> "none"]
    /\ UNCHANGED <<periods, countries, events>>

add_period(name, start_, end_, y, color, kw) ==
    /\ HasRoom(periods, name)
    /\ periods' = DictSet(periods, name,
                          Period(start_, end_, y, color,
                                 Arg(kw, "alpha", "0.4"),
                                 Arg(kw, "fontsize", "10"),
                                 Arg(kw, "bold", "False"),
                                 Arg(kw, "h", "0.025"),
                                 Arg(kw, "url", "None")))
    /\ last' = [call |-> "add_period", name |-> name, start |-> start_,
                end |-> end_, y |-> y, color |-> color, kw |-> kw]
    /\ prev' = [call |-> "none"]
    /\ UNCHANGED <<ages, countries, events>>

add_event(name, year, y, kw) ==
    /\ HasRoom(events, name)
    /\ events' = DictSet(events, name,
                         Event(year, y,
                               Arg(kw, "color", "k"),
                               Arg(kw, "fontsize", "8"),
                               Arg(kw, "bold", "True"),
                               Arg(kw, "url", "None")))
    /\ last' = [call |-> "add_event", name |-> name, year |-> year,
                y |-> y, kw |-> kw]
    /\ prev' = [call |-> "none"]
    /\ UNCHANGED <<ages, periods, countries>>

add_country(name, y, kw) ==
    /\ HasRoom(countries, name)
    /\ countries' = DictSet(countries, name, Country(y, Arg(kw, "url", "None")))
    /\ last' = [call |-> "add_country", name |-> name, y |-> y, kw |-> kw]
    /\ prev' = [call |-> "none"]
    /\ UNCHANGED <<ages, periods, events>>

get_start ==
    /\ last' = [call |-> "start", result |-> start]
    /\ prev' = [call |-> "none"]
    /\ UNCHANGED colls

get_end ==
    /\ last' = [call |-> "end", result |-> end]
    /\ prev' = [call |-> "none"]
    /\ UNCHANGED colls

(* ---------------------------- plot ------------------------------------- *)
(* plot() is called with its default configuration except for the fences   *)
(* flag.  Its outcome is the sequence of draw commands issued to the axes, *)
(* in the order of issue, up to the statement that raises, if one does.    *)
(* A statement whose arguments read self.start or self.end raises before   *)
(* the draw command is issued.                                             *)

country_offset == 10

age_cmds ==
    flatten([i \in 1..Len(ages) |->
        LET name == ages[i].name
            age == ages[i].value
        IN << [op |-> "axvspan", xmin |-> age.start, xmax |-> age.end,
               ymin |-> age.y, ymax |-> "1.0", color |-> age.color,
               alpha |-> age.top_alpha],
              [op |-> "text", x2 |-> age.start + age.end, y |-> "0.95",
               s |-> name, url |-> age.url],
              [op |-> "axvspan", xmin |-> age.start, xmax |-> age.end,
               ymin |-> "0.0", ymax |-> age.y, color |-> age.color,
               alpha |-> age.bottom_alpha] >>])

period_cmds ==
    flatten([i \in 1..Len(periods) |->
        LET name == periods[i].name
            period == periods[i].value
        IN << [op |-> "fill_between", xmin |-> period.start, xmax |-> period.end,
               y |-> period.y, h |-> period.h, color |-> "w", alpha |-> "None"],
              [op |-> "fill_between", xmin |-> period.start, xmax |-> period.end,
               y |-> period.y, h |-> period.h, color |-> period.color,
               alpha |-> period.alpha],
              [op |-> "text", x2 |-> period.start + period.end, y |-> period.y,
               s |-> name, url |-> period.url, fontsize |-> period.fontsize,
               weight |-> IF period.bold = "True" THEN "bold" ELSE "None"] >>])

country_cmds ==
    IF Len(countries) = 0 THEN [ok |-> TRUE, cmds |-> <<>>]
    ELSE IF ~start.ok THEN [ok |-> FALSE, cmds |-> <<>>]
    ELSE [ok |-> TRUE,
          cmds |-> [i \in 1..Len(countries) |->
                      [op |-> "text", x |-> start.value - country_offset,
                       y |-> countries[i].value.y, s |-> countries[i].name]]]

y_fences2_no_top(y_countries) ==
    IF Len(y_countries) > 1
    THEN [i \in 1..(Len(y_countries) - 1) |-> y_countries[i + 1] + y_countries[i]]
    ELSE [i \in 1..Len(y_countries) |-> 2 * (2 * y_countries[i])]

y_fences2(y_countries) ==
    IF Len(y_countries) > 1
    THEN LET between2 == [i \in 1..(Len(y_countries) - 1) |->
                             y_countries[i + 1] + y_countries[i]]
         IN Append(between2, 2 * (2 * np_max(y_countries)) - np_max(between2))
    ELSE [i \in 1..Len(y_countries) |-> 2 * (2 * y_countries[i])]

fence_cmds(fences) ==
    IF ~fences THEN [ok |-> TRUE, cmds |-> <<>>]
    ELSE LET y_countries == [i \in 1..Len(countries) |-> countries[i].value.y]
             fs == y_fences2(y_countries)
         IN IF Len(fs) = 0 THEN [ok |-> TRUE, cmds |-> <<>>]
            ELSE IF ~start.ok THEN [ok |-> FALSE, cmds |-> <<>>]
            ELSE [ok |-> TRUE,
                  cmds |-> [i \in 1..Len(fs) |->
                              [op |-> "plot", x0 |-> start.value,
                               x1 |-> end.value, y2 |-> fs[i], ls |-> "--"]]]

event_cmds ==
    [i \in 1..Len(events) |->
        LET name == events[i].name
            event == events[i].value
        IN [op |-> "text", x |-> event.year, y |-> event.y, s |-> name,
            url |-> event.url, c |-> event.color, fontsize |-> event.fontsize,
            weight |-> IF event.bold = "True" THEN "bold" ELSE "None"]]

first_tick_no_minus_one(start_) == ((start_ \div 100) + 1) * 100

first_tick(start_) == (((start_ - 1) \div 100) + 1) * 100

final_tick_inclusive(end_) == ((end_ \div 100) + 2) * 100

final_tick(end_) == ((end_ \div 100) + 1) * 100

axis_cmds_ylim_first ==
    IF ~start.ok
    THEN [ok |-> FALSE, cmds |-> << [op |-> "set_lim", ylim |-> <<0, 1>>] >>]
    ELSE [ok |-> TRUE,
          cmds |-> << [op |-> "set_lim", ylim |-> <<0, 1>>],
                      [op |-> "set_xticks",
                       xticks |-> np_arange(first_tick(start.value),
                                            final_tick(end.value), 100)],
                      [op |-> "set_lim", xlim |-> <<start.value, end.value>>],
                      [op |-> "set_yticks", yticks |-> <<>>],
                      [op |-> "hide_spines"] >>]

axis_cmds ==
    IF ~start.ok THEN [ok |-> FALSE, cmds |-> <<>>]
    ELSE [ok |-> TRUE,
          cmds |-> << [op |-> "set_xticks",
                       xticks |-> np_arange(first_tick(start.value),
                                            final_tick(end.value), 100)],
                      [op |-> "set_lim", ylim |-> <<0, 1>>,
                       xlim |-> <<start.value, end.value>>],
                      [op |-> "set_yticks", yticks |-> <<>>],
                      [op |-> "hide_spines"] >>]

RECURSIVE run(_)
run(stages) ==
    IF stages = <<>> THEN [ok |-> TRUE, cmds |-> <<>>]
    ELSE IF ~Head(stages).ok THEN [ok |-> FALSE, cmds |-> Head(stages).cmds]
    ELSE LET rest == run(Tail(stages))
         IN [ok |-> rest.ok, cmds |-> Head(stages).cmds \o rest.cmds]

plot_cmds(fences) ==
    run(<< [ok |-> TRUE, cmds |-> age_cmds],
           [ok |-> TRUE, cmds |-> period_cmds],
           country_cmds,
           fence_cmds(fences),
           [ok |-> TRUE, cmds |-> event_cmds],
           axis_cmds >>)

plot_sorting(fences) ==
    /\ LET out == plot_cmds(fences)
       IN last' = [call |-> "plot", fences |-> fences, ok |-> out.ok,
                   exc |-> IF out.ok THEN "None" ELSE "ValueError",
                   cmds |-> out.cmds]
    /\ prev' = IF last.call = "plot" THEN last ELSE [call |-> "none"]
    /\ countries' = SortSeq(countries, LAMBDA a, b : a.value.y < b.value.y)
    /\ UNCHANGED <<ages, periods, events>>

plot(fences) ==
    /\ LET out == plot_cmds(fences)
       IN last' = [call |-> "plot", fences |-> fences, ok |-> out.ok,
                   exc |-> IF out.ok THEN "None" ELSE "ValueError",
                   cmds |-> out.cmds]
    /\ prev' = IF last.call = "plot" THEN last ELSE [call |-> "none"]
    /\ UNCHANGED colls

Next ==
    \/ \E n \in AgeNames, a \in AgeArgs :
          add_age(n, a.start, a.end, a.color, a.kw)
    \/ \E n \in PeriodNames, a \in PeriodArgs :
          add_period(n, a.start, a.end, a.y, a.color, a.kw)
    \/ \E n \in EventNames, a \in EventArgs :
          add_event(n, a.year, a.y, a.kw)
    \/ \E n \in CountryNames, a \in CountryArgs :
          add_country(n, a.y, a.kw)
    \/ get_start
    \/ get_end
    \/ \E fences \in BOOLEAN : plot(fences)

Spec == Init /\ [][Next]_vars

(* ======================== properties =================================== *)

NoTemporal == ages = <<>> /\ periods = <<>> /\ events = <<>>

TimeCoords ==
    {ages[i].value.start : i \in 1..Len(ages)}
        \cup {ages[i].value.end : i \in 1..Len(ages)}
        \cup {periods[i].value.start : i \in 1..Len(periods)}
        \cup {periods[i].value.end : i \in 1..Len(periods)}
        \cup {events[i].value.year : i \in 1..Len(events)}

IsLeast(v, S) == v \in S /\ \A w \in S : v <= w

IsGreatest(v, S) == v \in S /\ \A w \in S : w <= v

Elems(seq) == {seq[i] : i \in 1..Len(seq)}

FenceLines(chart) == SelectSeq(chart.cmds, LAMBDA c : c.op = "plot")

FencePositions2(chart) == {c.y2 : c \in Elems(FenceLines(chart))}

XTicks(chart) == SelectSeq(chart.cmds, LAMBDA c : c.op = "set_xticks")[1].xticks

XLim(chart) == SelectSeq(chart.cmds, LAMBDA c : c.op = "set_lim")[1].xlim

Plotted == last.call = "plot" /\ last.ok

SmallestMultipleAbove(x) ==
    CHOOSE m \in (x + 1)..(x + 100) : m % 100 = 0

Spaced100(t) ==
    /\ \A i \in 1..Len(t) : t[i] % 100 = 0
    /\ \A i \in 1..(Len(t) - 1) : t[i + 1] = t[i] + 100

(* C1: whenever at least one age, period or event is registered, start is  *)
(* the minimum and end the maximum over every registered Age start/end,    *)
(* Period start/end and Event year (countries do not count), start <= end, *)
(* and a read of the start / end property returns exactly these values.    *)
C1_RangeIsMinMax ==
    TimeCoords # {} =>
        /\ start.ok /\ IsLeast(start.value, TimeCoords)
        /\ end.ok /\ IsGreatest(end.value, TimeCoords)
        /\ start.value <= end.value
        /\ last.call = "start" =>
              last.result.ok /\ IsLeast(last.result.value, TimeCoords)
        /\ last.call = "end" =>
              last.result.ok /\ IsGreatest(last.result.value, TimeCoords)

C1_Witness ==
    /\ last.call = "end" /\ last.result.ok /\ last.result.value = 300
    /\ Len(ages) = 1 /\ Len(periods) = 1 /\ Len(events) = 1 /\ Len(countries) = 1
    /\ start.value = -50

KwOr(kw, k, default) == IF k \in DOMAIN kw THEN kw[k] ELSE default

Under(d, name) == {i \in 1..Len(d) : d[i].name = name}

Replaced(old, new, name, rec) ==
    /\ Cardinality(Under(new, name)) = 1
    /\ \A i \in Under(new, name) : new[i].value = rec
    /\ name \in Keys(old) => Keys(new) = Keys(old) /\ Len(new) = Len(old)

C2_Step ==
    /\ last'.call = "add_age" =>
          Replaced(ages, ages', last'.name,
                   [start |-> last'.start, end |-> last'.end,
                    color |-> last'.color,
                    y |-> KwOr(last'.kw, "y", "0.9"),
                    top_alpha |-> KwOr(last'.kw, "top_alpha", "0.5"),
                    bottom_alpha |-> KwOr(last'.kw, "bottom_alpha", "0.1"),
                    url |-> KwOr(last'.kw, "url", "None")])
    /\ last'.call = "add_period" =>
          Replaced(periods, periods', last'.name,
                   [start |-> last'.start, end |-> last'.end, y |-> last'.y,
                    color |-> last'.color,
                    alpha |-> KwOr(last'.kw, "alpha", "0.4"),
                    fontsize |-> KwOr(last'.kw, "fontsize", "10"),
                    bold |-> KwOr(last'.kw, "bold", "False"),
                    h |-> KwOr(last'.kw, "h", "0.025"),
                    url |-> KwOr(last'.kw, "url", "None")])
    /\ last'.call = "add_event" =>
          Replaced(events, events', last'.name,
                   [year |-> last'.year, y |-> last'.y,
                    color |-> KwOr(last'.kw, "color", "k"),
                    fontsize |-> KwOr(last'.kw, "fontsize", "8"),
                    bold |-> KwOr(last'.kw, "bold", "True"),
                    url |-> KwOr(last'.kw, "url", "None")])
    /\ last'.call = "add_country" =>
          Replaced(countries, countries', last'.name,
                   [y |-> last'.y, url |-> KwOr(last'.kw, "url", "None")])

C3_EmptyRaisesEmptyTimelineError ==
    (last.call \in {"start", "end"} /\ NoTemporal) =>
        (~last.result.ok /\ last.result.exc = "EmptyTimelineError")

CountryYs == [i \in 1..Len(countries) |-> countries[i].value.y]

SetMax(S) == CHOOSE m \in S : \A w \in S : w <= m

(* C4: with fences enabled, the set of fence positions of a returned chart *)
(* is the same for every insertion order of the same name -> y mapping:    *)
(* re-deriving the fences from any permutation of the registered countries *)
(* gives the positions that were drawn.                                    *)
C4_FencesOrderInvariant ==
    (Plotted /\ last.fences) =>
        \A p \in Permutations(1..Len(countries)) :
            Elems(y_fences2([i \in 1..Len(countries) |-> CountryYs[p[i]]]))
                = FencePositions2(last)

(* The fence positions (doubled) the specification prescribes for a bag of *)
(* country y-positions: midpoints of consecutive positions in ascending    *)
(* order plus the top fence 2*max(y) - max(midpoints); 2*y for a single    *)
(* country; none for no country.                                           *)
PrescribedFences2(ys) ==
    LET s == SortSeq(ys, LAMBDA a, b : a < b)
        n == Len(s)
        between2 == {s[i] + s[i + 1] : i \in 1..(n - 1)}
    IN IF n >= 2 THEN between2 \cup {2 * (2 * s[n]) - SetMax(between2)}
       ELSE IF n = 1 THEN {2 * (2 * s[1])}
       ELSE {}

(* C5: with fences enabled, the fence positions of a returned chart are    *)
(* the prescribed function of the registered country y-positions.          *)
C5_FencePositions ==
    (Plotted /\ last.fences) =>
        FencePositions2(last) = PrescribedFences2(CountryYs)

PrescribedFenceCount(fences, n) ==
    IF ~fences THEN 0
    ELSE IF n >= 2 THEN (n - 1) + 1
    ELSE IF n = 1 THEN 1
    ELSE 0

(* C6 as stated: every plot call issues n fence lines (fences enabled) or  *)
(* none (fences disabled), n the number of registered country names.       *)
C6_FenceCountEveryCall ==
    last.call = "plot" =>
        Len(FenceLines(last)) = PrescribedFenceCount(last.fences, Len(countries))

(* C6 amended: a plot call that returns a chart has issued n fence lines   *)
(* for n >= 2 countries, 1 for n = 1, 0 for n = 0 when fences are enabled, *)
(* and none when they are disabled; a plot call that fails has issued no   *)
(* fence line.                                                             *)
C6_FenceCount ==
    last.call = "plot" =>
        Len(FenceLines(last)) =
            IF last.ok
            THEN PrescribedFenceCount(last.fences, Cardinality(Keys(countries)))
            ELSE 0

C6_Witness ==
    /\ Plotted /\ last.fences
    /\ Len(countries) = 3
    /\ Len(FenceLines(last)) = 3
    /\ Cardinality(FencePositions2(last)) < 3

(* C7 as stated: the ticks are multiples of 100 spaced 100 apart, the      *)
(* first is the smallest multiple of 100 strictly greater than start - 1   *)
(* and the last is the smallest multiple of 100 strictly greater than end. *)
C7_TicksLastAboveEnd ==
    Plotted =>
        LET t == XTicks(last)
            lim == XLim(last)
        IN /\ Spaced100(t)
           /\ Len(t) > 0 =>
                 /\ t[1] = SmallestMultipleAbove(lim[1] - 1)
                 /\ t[Len(t)] = SmallestMultipleAbove(lim[2])

(* C7 amended: the ticks are exactly the multiples of 100 in [start, end], *)
(* ascending and 100 apart: the first, if any, is the smallest multiple of *)
(* 100 strictly greater than start - 1 and the last is the largest         *)
(* multiple of 100 not greater than end, i.e. 100 below the smallest       *)
(* multiple of 100 strictly greater than end.                              *)
C7_Ticks ==
    Plotted =>
        LET t == XTicks(last)
            lim == XLim(last)
        IN /\ lim = <<start.value, end.value>>
           /\ Spaced100(t)
           /\ Elems(t) = {m \in lim[1]..lim[2] : m % 100 = 0}
           /\ Len(t) > 0 =>
                 /\ t[1] = SmallestMultipleAbove(lim[1] - 1)
                 /\ t[Len(t)] = SmallestMultipleAbove(lim[2]) - 100

C7_Witness ==
    /\ Plotted
    /\ XLim(last) = <<-50, 300>>
    /\ XTicks(last) = <<0, 100, 200, 300>>

OneAge100_200OneEvent250 ==
    /\ Len(ages) = 1 /\ ages[1].value.start = 100 /\ ages[1].value.end = 200
    /\ Len(periods) = 0
    /\ Len(events) = 1 /\ events[1].value.year = 250

(* C8 as stated: one Age(100, 200) and one Event(250) give start 100, end  *)
(* 250 and x-ticks that start at 200, step by 100 and end at or before 300.*)
C8_ExampleTicksFrom200 ==
    (Plotted /\ OneAge100_200OneEvent250) =>
        /\ start.value = 100 /\ end.value = 250
        /\ XLim(last) = <<100, 250>>
        /\ Len(XTicks(last)) > 0
        /\ XTicks(last)[1] = 200
        /\ Spaced100(XTicks(last))
        /\ XTicks(last)[Len(XTicks(last))] <= 300

(* C8 amended: one Age(100, 200) and one Event(250) give start 100, end    *)
(* 250 and x-ticks that start at 100, step by 100 and end at or before     *)
(* 300: the ticks are 100 and 200.                                         *)
C8_Example ==
    (Plotted /\ OneAge100_200OneEvent250) =>
        /\ start.value = 100 /\ end.value = 250
        /\ XLim(last) = <<100, 250>>
        /\ Len(XTicks(last)) > 0
        /\ XTicks(last)[1] = 100
        /\ Spaced100(XTicks(last))
        /\ XTicks(last)[Len(XTicks(last))] <= 300
        /\ XTicks(last) = <<100, 200>>

C8_Witness == Plotted /\ OneAge100_200OneEvent250 /\ Len(countries) = 0

Coordinates(chart) ==
    [ok |-> chart.ok,
     range |-> IF chart.ok THEN XLim(chart) ELSE <<>>,
     xticks |-> IF chart.ok THEN XTicks(chart) ELSE <<>>,
     fences2 |-> [i \in 1..Len(FenceLines(chart)) |-> FenceLines(chart)[i].y2]]

C9_Step ==
    last'.call = "plot" =>
        /\ colls' = colls
        /\ (prev'.call = "plot" /\ prev'.fences = last'.fences) =>
              Coordinates(prev') = Coordinates(last')

(* C9: plot leaves the four collections and every stored record unchanged, *)
(* and a plot call that directly follows a plot call with the same         *)
(* configuration yields the same derived range, the same tick positions    *)
(* and the same fence positions.                                           *)
C9_PlotIdempotent == [][C9_Step]_vars

C9_Witness ==
    /\ Plotted /\ last.fences
    /\ prev.call = "plot" /\ prev.fences /\ prev.ok
    /\ Len(countries) = 3 /\ CountryYs[1] > CountryYs[2]

C10_Step ==
    (last'.call = "plot" /\ NoTemporal) =>
        /\ ~last'.ok
        /\ last'.exc # "None"
        /\ last'.cmds = <<>>
        /\ colls' = colls

(* C10: a plot call on a Timeline with no age, period or event, for any    *)
(* number of countries and either value of the fences flag, fails, has     *)
(* issued no draw command before the failure, returns no chart and leaves  *)
(* the four collections unchanged.                                         *)
C10_AllOrNothing == [][C10_Step]_vars

C10_Witness ==
    /\ last.call = "plot" /\ ~last.ok /\ last.fences /\ last.cmds = <<>>
    /\ NoTemporal
    /\ Len(countries) = 3

====
